---------------------------- MODULE Spec2Model ----------------------------
(***************************************************************************)
(* A model of the Deno client for Replit DB (src/index.ts): the class      *)
(* Client with its primitive operations get, set, delete, list and its     *)
(* composite operations empty, getAll, setAll, deleteMultiple, run against *)
(* a remote key-value store that speaks the wire protocol the client uses. *)
(*                                                                         *)
(* Text is a sequence of one-character strings.  A JavaScript value is a   *)
(* record [t, n, s]: null, a boolean, a non-negative integer or a string   *)
(* (objects and arrays lie outside the bounds of the model).               *)
(***************************************************************************)
EXTENDS Naturals, Sequences, FiniteSets, TLC

\* The fields of the records of the model, each with the record it belongs
\* to.  Every record of the module lists its fields in this order.
Fields ==
  [body |-> "request", del |-> "others", dl |-> "request", ents |-> "call",
   err |-> "outcome",
   k |-> "entry", key |-> "call, error", kind |-> "return", list |-> "return",
   m |-> "request", map |-> "return", n |-> "value", name |-> "call, error",
   ok |-> "outcome", onEmpty |-> "call", put |-> "others", raw |-> "call",
   resp |-> "request",
   s |-> "value", st |-> "request", t |-> "value", url |-> "request",
   v |-> "value, entry", val |-> "call"]

-----------------------------------------------------------------------------
(* Bounds *)

\* most entries of a setAll mapping / most arguments of deleteMultiple
MaxArgs == 2

\* the string values callers store: the empty string, a plain one, and
\* two with a character that form encoding reserves
StringValues == {<<>>, <<"a">>, <<"+">>, <<"&">>}

\* the keys callers use (restricted identifiers, spec section 3)
Keys == {<<"k">>, <<"j">>}

\* the one number callers store
TheNumber == 7

-----------------------------------------------------------------------------
(* Text helpers *)

RECURSIVE SeqsUpTo(_, _)
SeqsUpTo(S, n) ==
  IF n = 0 THEN {<<>>}
  ELSE LET shorter == SeqsUpTo(S, n - 1)
       IN shorter \cup {Append(s, c) : s \in {x \in shorter : Len(x) = n - 1}, c \in S}

\* index of the first occurrence of character c in text t, 0 if none
RECURSIVE IndexOf(_, _, _)
IndexOf(t, c, from) ==
  IF from > Len(t) THEN 0
  ELSE IF t[from] = c THEN from
  ELSE IndexOf(t, c, from + 1)

\* String.prototype.split on a one-character separator
RECURSIVE Split(_, _)
Split(t, sep) ==
  LET i == IndexOf(t, sep, 1)
  IN IF i = 0 THEN <<t>>
     ELSE <<SubSeq(t, 1, i - 1)>> \o Split(SubSeq(t, i + 1, Len(t)), sep)

-----------------------------------------------------------------------------
(* JavaScript values *)

Null == [n |-> 0, s |-> <<>>, t |-> "null"]
Undefined == [n |-> 0, s |-> <<>>, t |-> "undefined"]
Bool(b) == [n |-> IF b THEN 1 ELSE 0, s |-> <<>>, t |-> "bool"]
Num(n) == [n |-> n, s |-> <<>>, t |-> "num"]
Str(s) == [n |-> 0, s |-> s, t |-> "str"]

\* the values a caller hands to set and setAll
Values == {Null, Num(TheNumber)} \cup {Str(s) : s \in StringValues}

Digits == <<"0", "1", "2", "3", "4", "5", "6", "7", "8", "9">>

RECURSIVE NumText(_)
NumText(n) ==
  IF n < 10 THEN <<Digits[n + 1]>>
  ELSE NumText(n \div 10) \o <<Digits[(n % 10) + 1]>>

RECURSIVE JsonEscape(_)
JsonEscape(s) ==
  IF s = <<>> THEN <<>>
  ELSE (IF Head(s) \in {"\"", "\\"} THEN <<"\\", Head(s)>> ELSE <<Head(s)>>)
       \o JsonEscape(Tail(s))

\* JSON.stringify(value)
JSONStringify(v) ==
  CASE v.t = "null" -> <<"n", "u", "l", "l">>
    [] v.t = "bool" -> IF v.n = 1 THEN <<"t", "r", "u", "e">>
                       ELSE <<"f", "a", "l", "s", "e">>
    [] v.t = "num" -> NumText(v.n)
    [] v.t = "str" -> <<"\"">> \o JsonEscape(v.s) \o <<"\"">>

JsonSpace == {" "}

RECURSIVE TrimLeft(_)
TrimLeft(t) ==
  IF t # <<>> /\ Head(t) \in JsonSpace THEN TrimLeft(Tail(t)) ELSE t

RECURSIVE TrimRight(_)
TrimRight(t) ==
  IF t # <<>> /\ t[Len(t)] \in JsonSpace THEN TrimRight(SubSeq(t, 1, Len(t) - 1)) ELSE t

DigitValue(c) == CHOOSE d \in 0..9 : Digits[d + 1] = c

RECURSIVE NumValue(_)
NumValue(t) ==
  IF Len(t) = 1 THEN DigitValue(t[1])
  ELSE 10 * NumValue(SubSeq(t, 1, Len(t) - 1)) + DigitValue(t[Len(t)])

IsNumberText(t) ==
  /\ t # <<>>
  /\ \A i \in 1..Len(t) : \E d \in 1..10 : Digits[d] = t[i]
  /\ (Len(t) > 1 => t[1] # "0")

\* the body of a JSON string literal (the text between its quotes):
\* [ok, s], ok false when the body is not a well-formed string body
RECURSIVE JsonStringBody(_)
JsonStringBody(t) ==
  IF t = <<>> THEN [ok |-> TRUE, s |-> <<>>]
  ELSE IF Head(t) = "\"" THEN [ok |-> FALSE, s |-> <<>>]
  ELSE IF Head(t) = "\\"
    THEN IF Len(t) >= 2 /\ t[2] \in {"\"", "\\"}
         THEN LET r == JsonStringBody(SubSeq(t, 3, Len(t)))
              IN [ok |-> r.ok, s |-> <<t[2]>> \o r.s]
         ELSE [ok |-> FALSE, s |-> <<>>]
  ELSE LET r == JsonStringBody(Tail(t))
       IN [ok |-> r.ok, s |-> <<Head(t)>> \o r.s]

\* JSON.parse(text): [ok, v], ok false when JSON.parse throws
JSONParse(text) ==
  LET t == TrimRight(TrimLeft(text))
      bad == [ok |-> FALSE, v |-> Undefined]
  IN IF t = <<"n", "u", "l", "l">> THEN [ok |-> TRUE, v |-> Null]
     ELSE IF t = <<"t", "r", "u", "e">> THEN [ok |-> TRUE, v |-> Bool(TRUE)]
     ELSE IF t = <<"f", "a", "l", "s", "e">> THEN [ok |-> TRUE, v |-> Bool(FALSE)]
     ELSE IF IsNumberText(t) THEN [ok |-> TRUE, v |-> Num(NumValue(t))]
     ELSE IF Len(t) >= 2 /\ t[1] = "\"" /\ t[Len(t)] = "\""
       THEN LET r == JsonStringBody(SubSeq(t, 2, Len(t) - 1))
            IN IF r.ok THEN [ok |-> TRUE, v |-> Str(r.s)] ELSE bad
     ELSE bad

-----------------------------------------------------------------------------
(* URL encoding *)

\* the characters of the model that percent-encoding escapes, with their codes
HexCode(c) ==
  CASE c = " " -> <<"2", "0">>
    [] c = "\"" -> <<"2", "2">>
    [] c = "#" -> <<"2", "3">>
    [] c = "%" -> <<"2", "5">>
    [] c = "&" -> <<"2", "6">>
    [] c = "+" -> <<"2", "B">>
    [] c = "=" -> <<"3", "D">>
    [] c = "?" -> <<"3", "F">>
    [] c = "\\" -> <<"5", "C">>
    [] c = "{" -> <<"7", "B">>

Escapable == {" ", "\"", "#", "%", "&", "+", "=", "?", "\\", "{"}

\* what the URL parser escapes in a path
PathEscaped == {" ", "\"", "{"}

RECURSIVE PercentEncode(_, _)
PercentEncode(t, escaped) ==
  IF t = <<>> THEN <<>>
  ELSE (IF Head(t) \in escaped THEN <<"%">> \o HexCode(Head(t)) ELSE <<Head(t)>>)
       \o PercentEncode(Tail(t), escaped)

\* encodeURIComponent(text)
EncodeURIComponent(t) == PercentEncode(t, Escapable)

\* percent-decoding: [ok, s], ok false on a malformed escape; plusIsSpace
\* is the form-encoding rule that reads "+" as a space
RECURSIVE PercentDecode(_, _)
PercentDecode(t, plusIsSpace) ==
  IF t = <<>> THEN [ok |-> TRUE, s |-> <<>>]
  ELSE IF Head(t) = "%"
    THEN IF Len(t) >= 3 /\ \E c \in Escapable : HexCode(c) = <<t[2], t[3]>>
         THEN LET c == CHOOSE x \in Escapable : HexCode(x) = <<t[2], t[3]>>
                  r == PercentDecode(SubSeq(t, 4, Len(t)), plusIsSpace)
              IN [ok |-> r.ok, s |-> <<c>> \o r.s]
         ELSE [ok |-> FALSE, s |-> <<>>]
  ELSE LET r == PercentDecode(Tail(t), plusIsSpace)
           c == IF plusIsSpace /\ Head(t) = "+" THEN " " ELSE Head(t)
       IN [ok |-> r.ok, s |-> <<c>> \o r.s]

\* decodeURIComponent(text): [ok, s], ok false when it throws URIError
DecodeURIComponent(t) == PercentDecode(t, FALSE)

\* the path segment fetch sends for this.key + "/" + key: the URL parser
\* drops trailing spaces, ends the path at "?" or "#", and escapes the rest
UrlPath(key) ==
  LET k == TrimRight(key)
      q == IndexOf(k, "?", 1)
      h == IndexOf(k, "#", 1)
      cut == IF q = 0 THEN h ELSE IF h = 0 THEN q ELSE IF q < h THEN q ELSE h
      p == IF cut = 0 THEN k ELSE SubSeq(k, 1, cut - 1)
  IN PercentEncode(p, PathEscaped)

-----------------------------------------------------------------------------
(* The remote store: a function from key text to value text, answering     *)
(* the four requests of the wire protocol.                                 *)

\* GET E/<path>: the stored text, an empty body when there is no entry
ServerGet(st, path) ==
  LET k == PercentDecode(path, FALSE).s
  IN IF k \in DOMAIN st THEN st[k] ELSE <<>>

\* DELETE E/<path>
ServerDelete(st, path) ==
  LET k == PercentDecode(path, FALSE).s
  IN [x \in (DOMAIN st) \ {k} |-> st[x]]

\* one key=value pair of a form body, form-decoded
FormPair(seg) ==
  LET i == IndexOf(seg, "=", 1)
      k == IF i = 0 THEN seg ELSE SubSeq(seg, 1, i - 1)
      v == IF i = 0 THEN <<>> ELSE SubSeq(seg, i + 1, Len(seg))
  IN [k |-> PercentDecode(k, TRUE).s, v |-> PercentDecode(v, TRUE).s]

RECURSIVE StorePairs(_, _)
StorePairs(st, segs) ==
  IF segs = <<>> THEN st
  ELSE IF Head(segs) = <<>> THEN StorePairs(st, Tail(segs))
  ELSE LET p == FormPair(Head(segs))
       IN StorePairs([x \in (DOMAIN st) \cup {p.k} |-> IF x = p.k THEN p.v ELSE st[x]],
                     Tail(segs))

\* POST E with an application/x-www-form-urlencoded body: every pair of
\* the body is stored
ServerPost(st, body) == StorePairs(st, Split(body, "&"))

IsPrefix(p, t) == Len(p) <= Len(t) /\ SubSeq(t, 1, Len(p)) = p

RECURSIVE JoinLines(_)
JoinLines(lines) ==
  IF lines = <<>> THEN <<>>
  ELSE IF Len(lines) = 1 THEN lines[1]
  ELSE lines[1] \o <<"\n">> \o JoinLines(Tail(lines))

\* the orders in which the store may list a set of keys
Orders(S) ==
  {o \in [1..Cardinality(S) -> S] : \A i, j \in 1..Cardinality(S) : i # j => o[i] # o[j]}

\* GET E?encode=true&prefix=<query>: the possible bodies, the matching
\* keys URL-encoded, one per line, in an order of the store's choosing
ServerList(st, query) ==
  LET p == PercentDecode(query, TRUE).s
      match == {k \in DOMAIN st : IsPrefix(p, k)}
  IN {JoinLines([i \in 1..Cardinality(match) |-> EncodeURIComponent(o[i])]) : o \in Orders(match)}

-----------------------------------------------------------------------------
(* State *)

VARIABLES
  endpoint,\* this.key: the endpoint the client was constructed with
  store,   \* the remote store: key text -> value text
  call,    \* the Client method the caller is running, with its arguments
  pc,      \* where that call stands: idle, list, loop, await, join, done, raised
  \* (a request of reqs is sent, ok, bad or err: in flight, carried out,
  \* refused with a non-success status, failed in transport)
  reqs,    \* the fetch requests the call has issued, in the order issued
  keys,    \* empty, getAll: the keys list() returned
  idx,     \* the loop index of a composite operation
  output,  \* getAll: the object being filled
  ret,     \* what the call returned
  err,     \* what the call threw
  prev,    \* the call the caller completed before this one
  since    \* the keys other clients have set and deleted since the store
           \* answered the list request of the call

vars == <<endpoint, store, call, pc, reqs, keys, idx, output, ret, err, prev, since>>

NoMap == [x \in {} |-> Null]
NoCall == [ents |-> <<>>, key |-> <<>>, name |-> "none", onEmpty |-> FALSE,
           raw |-> FALSE, val |-> Null]
NoRet == [kind |-> "none", list |-> <<>>, map |-> NoMap, v |-> Null]
NoErr == [key |-> <<>>, name |-> "none"]
Self == [kind |-> "self", list |-> <<>>, map |-> NoMap, v |-> Null]
NoSince == [del |-> {}, put |-> {}]

\* the texts other writers may have left in the store before the run
InitTexts == {<<>>, <<"{", "a">>}

InitStores == UNION {[D -> InitTexts] : D \in SUBSET Keys}

\* setAll's argument: a mapping, as its entries in iteration order
RECURSIVE EntryLists(_)
EntryLists(n) ==
  IF n = 0 THEN {<<>>}
  ELSE LET shorter == EntryLists(n - 1)
       IN shorter \cup
          {Append(e, [k |-> k, v |-> v]) :
             e \in {x \in shorter : Len(x) = n - 1}, k \in Keys, v \in Values}

Mappings ==
  {e \in EntryLists(MaxArgs) : \A i, j \in 1..Len(e) : i # j => e[i].k # e[j].k}

\* deleteMultiple's arguments
ArgLists == {[i \in 1..Len(a) |-> [k |-> a[i], v |-> Null]] : a \in SeqsUpTo(Keys, MaxArgs)}

\* the URL of the store
StoreUrl == Str(<<"E">>)

\* what the caller passes to the constructor: nothing, the empty string or
\* the URL of the store
KeyArgs == {Undefined, Str(<<>>), StoreUrl}

\* what Deno.env.get("REPLIT_DB_URL") returns: undefined when the variable
\* is not set
EnvValues == {Undefined, StoreUrl}

\* constructor(key?): the value of this.key
Constructor(key, env) ==
  IF key # Undefined /\ key # Str(<<>>) THEN key ELSE env

Init ==
  /\ endpoint \in {Constructor(key, env) : key \in KeyArgs, env \in EnvValues}
  /\ store \in InitStores
  /\ call = NoCall
  /\ pc = "idle"
  /\ reqs = <<>>
  /\ keys = <<>>
  /\ idx = 0
  /\ output = NoMap
  /\ ret = NoRet
  /\ err = NoErr
  /\ prev = NoCall
  /\ since = NoSince

-----------------------------------------------------------------------------
(* The fetch calls of the client *)

Req(m, url, body) ==
  [body |-> body, dl |-> FALSE, m |-> m, resp |-> <<>>, st |-> "sent", url |-> url]

\* get: fetch(this.key + "/" + key)
GetRequest(key) == Req("GET", UrlPath(key), <<>>)

\* set: fetch(this.key, {method: "POST", ..., body: key + "=" + strValue})
SetRequest(key, value) == Req("POST", <<>>, key \o <<"=">> \o JSONStringify(value))

\* delete, were it a set of the key to the empty text
DeleteRequestByEmptySet(key) == Req("POST", <<>>, key \o <<"=">>)

\* delete: fetch(this.key + "/" + key, {method: "DELETE"})
DeleteRequest(key) == Req("DELETE", UrlPath(key), <<>>)

\* list: fetch(this.key + `?encode=true&prefix=${encodeURIComponent(prefix)}`)
ListRequest(prefix) == Req("LIST", EncodeURIComponent(prefix), <<>>)

\* get's callback, were a text that fails to parse returned as it is
GetThenLenient(key, raw, strValue) ==
  IF raw THEN [err |-> NoErr, ok |-> TRUE, v |-> Str(strValue)]
  ELSE IF strValue = <<>> THEN [err |-> NoErr, ok |-> TRUE, v |-> Null]
  ELSE LET p == JSONParse(strValue)
       IN IF ~p.ok THEN [err |-> NoErr, ok |-> TRUE, v |-> Str(strValue)]
          ELSE IF p.v = Null \/ p.v = Undefined THEN [err |-> NoErr, ok |-> TRUE, v |-> Null]
          ELSE [err |-> NoErr, ok |-> TRUE, v |-> p.v]

\* get's callback, were the empty text tested before the raw option
GetThenEmptyFirst(key, raw, strValue) ==
  IF strValue = <<>> THEN [err |-> NoErr, ok |-> TRUE, v |-> Null]
  ELSE IF raw THEN [err |-> NoErr, ok |-> TRUE, v |-> Str(strValue)]
  ELSE LET p == JSONParse(strValue)
       IN IF ~p.ok THEN [err |-> [key |-> key, name |-> "SyntaxError"], ok |-> FALSE, v |-> Null]
          ELSE IF p.v = Null \/ p.v = Undefined THEN [err |-> NoErr, ok |-> TRUE, v |-> Null]
          ELSE [err |-> NoErr, ok |-> TRUE, v |-> p.v]

\* get's callback, were the empty text answered with undefined
GetThenUndefined(key, raw, strValue) ==
  IF raw THEN [err |-> NoErr, ok |-> TRUE, v |-> Str(strValue)]
  ELSE IF strValue = <<>> THEN [err |-> NoErr, ok |-> TRUE, v |-> Undefined]
  ELSE LET p == JSONParse(strValue)
       IN IF ~p.ok THEN [err |-> [key |-> key, name |-> "SyntaxError"], ok |-> FALSE, v |-> Null]
          ELSE IF p.v = Null \/ p.v = Undefined THEN [err |-> NoErr, ok |-> TRUE, v |-> Null]
          ELSE [err |-> NoErr, ok |-> TRUE, v |-> p.v]

\* get's callback on the response text
GetThen(key, raw, strValue) ==
  IF raw THEN [err |-> NoErr, ok |-> TRUE, v |-> Str(strValue)]
  ELSE IF strValue = <<>> THEN [err |-> NoErr, ok |-> TRUE, v |-> Null]
  ELSE LET p == JSONParse(strValue)
       IN IF ~p.ok THEN [err |-> [key |-> key, name |-> "SyntaxError"], ok |-> FALSE, v |-> Null]
          ELSE IF p.v = Null \/ p.v = Undefined THEN [err |-> NoErr, ok |-> TRUE, v |-> Null]
          ELSE [err |-> NoErr, ok |-> TRUE, v |-> p.v]

\* list's callback, were the segments returned as the store sent them
ListThenUndecoded(t) ==
  IF Len(t) = 0 THEN [list |-> <<>>, ok |-> TRUE]
  ELSE [list |-> Split(t, "\n"), ok |-> TRUE]

\* list's callback on the response text
ListThen(t) ==
  IF Len(t) = 0 THEN [list |-> <<>>, ok |-> TRUE]
  ELSE LET segs == Split(t, "\n")
           dec == [i \in 1..Len(segs) |-> DecodeURIComponent(segs[i])]
       IN IF \A i \in 1..Len(segs) : dec[i].ok
          THEN [list |-> [i \in 1..Len(segs) |-> dec[i].s], ok |-> TRUE]
          ELSE [list |-> <<>>, ok |-> FALSE]

TransportError == [key |-> <<>>, name |-> "TransportError"]
URIError == [key |-> <<>>, name |-> "URIError"]

-----------------------------------------------------------------------------
(* The transport and the store *)

InFlight(i) == i \in 1..Len(reqs) /\ reqs[i].st = "sent"

\* fetch reaches the store when this.key holds its URL; with this.key
\* undefined the URL it is given ("undefined/<key>") is not one and it rejects
Reaches == endpoint = StoreUrl

Effect(st, r) ==
  CASE r.m = "POST" -> ServerPost(st, r.body)
    [] r.m = "DELETE" -> ServerDelete(st, r.url)
    [] OTHER -> st

\* the store handles request i and answers it
ServerHandle(i) ==
  /\ InFlight(i) /\ Reaches
  /\ store' = Effect(store, reqs[i])
  /\ \E body \in (CASE reqs[i].m = "GET" -> {ServerGet(store, reqs[i].url)}
                    [] reqs[i].m = "LIST" -> ServerList(store, reqs[i].url)
                    [] OTHER -> {<<>>}) :
       reqs' = [reqs EXCEPT ![i].st = "ok", ![i].resp = body]
  /\ UNCHANGED <<endpoint, call, pc, keys, idx, output, ret, err, prev, since>>

\* what the store sends with a non-success status
StatusBody == <<"n", "o">>

\* the store answers request i with a non-success status and does not
\* carry it out; fetch resolves with that response all the same
ServerRefuse(i) ==
  /\ InFlight(i) /\ Reaches
  /\ reqs' = [reqs EXCEPT ![i].st = "bad", ![i].resp = StatusBody]
  /\ UNCHANGED <<endpoint, store, call, pc, keys, idx, output, ret, err, prev, since>>

\* the transport fails request i (fetch will reject), before or after the
\* store has handled it
TransportFail(i) ==
  /\ InFlight(i)
  /\ \E applied \in {FALSE, Reaches} :
       store' = IF applied THEN Effect(store, reqs[i]) ELSE store
  /\ reqs' = [reqs EXCEPT ![i].st = "err"]
  /\ UNCHANGED <<endpoint, call, pc, keys, idx, output, ret, err, prev, since>>

-----------------------------------------------------------------------------
(* The caller: one call of a Client method at a time.  The caller starts   *)
(* its next call once the previous one has returned or thrown and no       *)
(* request of it is still in flight.                                       *)

Quiet == \A i \in 1..Len(reqs) : reqs[i].st # "sent"

\* every request of the call was carried out by the store
AllCarriedOut == \A i \in 1..Len(reqs) : reqs[i].st = "ok"

\* what call c remembers of the call that has just completed: a get
\* remembers the set of its key, a delete the delete of its key, a getAll
\* the setAll that filled an empty store, when the store carried out every
\* request of that call
Remember(c) ==
  IF pc = "done" /\ AllCarriedOut /\ call.name = "set"
     /\ c.name = "get" /\ c.key = call.key THEN call
  ELSE IF pc = "done" /\ AllCarriedOut /\ call.name = "delete"
     /\ c.name = "delete" /\ c.key = call.key THEN call
  ELSE IF pc = "done" /\ AllCarriedOut /\ call.name = "setAll" /\ call.onEmpty
     /\ c.name = "getAll" THEN call
  ELSE NoCall

Begin(c, rq, p, r) ==
  /\ pc \in {"idle", "done", "raised"}
  /\ Quiet
  /\ call' = [c EXCEPT !.onEmpty = (DOMAIN store = {})]
  /\ prev' = Remember(c)
  /\ reqs' = rq
  /\ pc' = p
  /\ ret' = r
  /\ keys' = <<>>
  /\ idx' = 0
  /\ output' = NoMap
  /\ err' = NoErr
  /\ since' = NoSince
  /\ UNCHANGED <<endpoint, store>>

-----------------------------------------------------------------------------
(* get *)

CallGet ==
  \E k \in Keys, raw \in BOOLEAN :
    Begin([NoCall EXCEPT !.name = "get", !.key = k, !.raw = raw],
          <<GetRequest(k)>>, "await", NoRet)

GetSettle ==
  /\ call.name = "get" /\ pc = "await"
  /\ reqs[1].st # "sent"
  /\ reqs' = [reqs EXCEPT ![1].dl = TRUE]
  /\ IF reqs[1].st = "err"
     THEN pc' = "raised" /\ err' = TransportError /\ ret' = ret
     ELSE LET g == GetThen(call.key, call.raw, reqs[1].resp)
          IN IF g.ok
             THEN pc' = "done" /\ ret' = [NoRet EXCEPT !.kind = "value", !.v = g.v]
                  /\ err' = err
             ELSE pc' = "raised" /\ err' = g.err /\ ret' = ret
  /\ UNCHANGED <<endpoint, store, call, keys, idx, output, prev, since>>

-----------------------------------------------------------------------------
(* set *)

CallSet ==
  \E k \in Keys, v \in Values :
    Begin([NoCall EXCEPT !.name = "set", !.key = k, !.val = v],
          <<SetRequest(k, v)>>, "await", NoRet)

SetSettle ==
  /\ call.name = "set" /\ pc = "await"
  /\ reqs[1].st # "sent"
  /\ reqs' = [reqs EXCEPT ![1].dl = TRUE]
  /\ IF reqs[1].st = "err"
     THEN pc' = "raised" /\ err' = TransportError /\ ret' = ret
     ELSE pc' = "done" /\ ret' = Self /\ err' = err
  /\ UNCHANGED <<endpoint, store, call, keys, idx, output, prev, since>>

-----------------------------------------------------------------------------
(* delete *)

CallDelete ==
  \E k \in Keys :
    Begin([NoCall EXCEPT !.name = "delete", !.key = k],
          <<DeleteRequest(k)>>, "await", NoRet)

DeleteSettle ==
  /\ call.name = "delete" /\ pc = "await"
  /\ reqs[1].st # "sent"
  /\ reqs' = [reqs EXCEPT ![1].dl = TRUE]
  /\ IF reqs[1].st = "err"
     THEN pc' = "raised" /\ err' = TransportError /\ ret' = ret
     ELSE pc' = "done" /\ ret' = Self /\ err' = err
  /\ UNCHANGED <<endpoint, store, call, keys, idx, output, prev, since>>

-----------------------------------------------------------------------------
(* list *)

\* the prefixes callers list with
Prefixes == {<<>>} \cup Keys

CallList ==
  \E p \in Prefixes :
    Begin([NoCall EXCEPT !.name = "list", !.key = p],
          <<ListRequest(p)>>, "await", NoRet)

ListSettle ==
  /\ call.name = "list" /\ pc = "await"
  /\ reqs[1].st # "sent"
  /\ reqs' = [reqs EXCEPT ![1].dl = TRUE]
  /\ IF reqs[1].st = "err"
     THEN pc' = "raised" /\ err' = TransportError /\ ret' = ret
     ELSE LET l == ListThen(reqs[1].resp)
          IN IF l.ok
             THEN pc' = "done" /\ ret' = [NoRet EXCEPT !.kind = "list", !.list = l.list]
                  /\ err' = err
             ELSE pc' = "raised" /\ err' = URIError /\ ret' = ret
  /\ UNCHANGED <<endpoint, store, call, keys, idx, output, prev, since>>

-----------------------------------------------------------------------------
(* await Promise.all(promises), the promises being those of the delete     *)
(* calls of the loop before it                                             *)

Last == Len(reqs)

MarkDelivered(i) == [reqs EXCEPT ![i].dl = TRUE]

\* the promise of delete request i settles; a rejection rejects the
\* Promise.all and the awaiting call throws
PromiseSettle(i) ==
  /\ pc = "join"
  /\ i \in 1..Len(reqs) /\ reqs[i].m = "DELETE"
  /\ reqs[i].st # "sent" /\ ~reqs[i].dl
  /\ reqs' = MarkDelivered(i)
  /\ IF reqs[i].st = "err"
     THEN pc' = "raised" /\ err' = TransportError
     ELSE pc' = pc /\ err' = err
  /\ UNCHANGED <<endpoint, store, call, keys, idx, output, ret, prev, since>>

\* every promise is fulfilled: the Promise.all resolves, the call returns this
PromiseAllResolve ==
  /\ pc = "join"
  /\ \A i \in 1..Len(reqs) : reqs[i].dl
  /\ pc' = "done"
  /\ ret' = Self
  /\ UNCHANGED <<endpoint, store, call, reqs, keys, idx, output, err, prev, since>>

-----------------------------------------------------------------------------
(* empty *)

CallEmpty ==
  Begin([NoCall EXCEPT !.name = "empty"], <<ListRequest(<<>>)>>, "list", NoRet)

\* for (const key of await this.list())
EmptyListSettle ==
  /\ call.name = "empty" /\ pc = "list"
  /\ reqs[1].st # "sent"
  /\ reqs' = MarkDelivered(1)
  /\ IF reqs[1].st = "err"
     THEN pc' = "raised" /\ err' = TransportError /\ keys' = keys
     ELSE LET l == ListThen(reqs[1].resp)
          IN IF l.ok
             THEN /\ keys' = l.list
                  /\ pc' = IF l.list = <<>> THEN "join" ELSE "loop"
                  /\ err' = err
             ELSE pc' = "raised" /\ err' = URIError /\ keys' = keys
  /\ UNCHANGED <<endpoint, store, call, idx, output, ret, prev, since>>

\* the loop, were a delete issued for a key other than the listed one
EmptyIssueAnyKey ==
  /\ call.name = "empty" /\ pc = "loop"
  /\ \E k \in Keys : reqs' = Append(reqs, DeleteRequest(k))
  /\ idx' = idx + 1
  /\ pc' = IF idx + 1 = Len(keys) THEN "join" ELSE "loop"
  /\ UNCHANGED <<endpoint, store, call, keys, output, ret, err, prev, since>>

\* promises.push(this.delete(key))
EmptyIssue ==
  /\ call.name = "empty" /\ pc = "loop"
  /\ reqs' = Append(reqs, DeleteRequest(keys[idx + 1]))
  /\ idx' = idx + 1
  /\ pc' = IF idx + 1 = Len(keys) THEN "join" ELSE "loop"
  /\ UNCHANGED <<endpoint, store, call, keys, output, ret, err, prev, since>>

EmptyJoin ==
  /\ call.name = "empty"
  /\ \/ \E i \in 1..Len(reqs) : PromiseSettle(i)
     \/ PromiseAllResolve

-----------------------------------------------------------------------------
(* deleteMultiple *)

CallDeleteMultiple ==
  \E a \in ArgLists :
    Begin([NoCall EXCEPT !.name = "deleteMultiple", !.ents = a],
          <<>>, IF a = <<>> THEN "join" ELSE "loop", NoRet)

\* the loop, were each delete awaited before the next is issued
DeleteMultipleIssueAwaiting ==
  /\ call.name = "deleteMultiple" /\ pc = "loop"
  /\ idx > 0 => reqs[idx].st # "sent"
  /\ IF idx > 0 /\ reqs[idx].st = "err"
     THEN /\ pc' = "raised" /\ err' = TransportError
          /\ reqs' = MarkDelivered(idx)
          /\ idx' = idx
     ELSE /\ reqs' = Append(reqs, DeleteRequest(call.ents[idx + 1].k))
          /\ idx' = idx + 1
          /\ pc' = IF idx + 1 = Len(call.ents) THEN "join" ELSE "loop"
          /\ err' = err
  /\ UNCHANGED <<endpoint, store, call, keys, output, ret, prev, since>>

\* promises.push(this.delete(arg))
DeleteMultipleIssue ==
  /\ call.name = "deleteMultiple" /\ pc = "loop"
  /\ reqs' = Append(reqs, DeleteRequest(call.ents[idx + 1].k))
  /\ idx' = idx + 1
  /\ pc' = IF idx + 1 = Len(call.ents) THEN "join" ELSE "loop"
  /\ UNCHANGED <<endpoint, store, call, keys, output, ret, err, prev, since>>

DeleteMultipleJoin ==
  /\ call.name = "deleteMultiple"
  /\ \/ \E i \in 1..Len(reqs) : PromiseSettle(i)
     \/ PromiseAllResolve

-----------------------------------------------------------------------------
(* getAll *)

MapResult(m) == [NoRet EXCEPT !.kind = "map", !.map = m]

CallGetAll ==
  Begin([NoCall EXCEPT !.name = "getAll"], <<ListRequest(<<>>)>>, "list", NoRet)

\* for (const key of await this.list()), up to the first await this.get(key)
GetAllListSettle ==
  /\ call.name = "getAll" /\ pc = "list"
  /\ reqs[1].st # "sent"
  /\ IF reqs[1].st = "err"
     THEN /\ pc' = "raised" /\ err' = TransportError
          /\ reqs' = MarkDelivered(1)
          /\ UNCHANGED <<keys, ret>>
     ELSE LET l == ListThen(reqs[1].resp)
          IN IF ~l.ok
             THEN /\ pc' = "raised" /\ err' = URIError
                  /\ reqs' = MarkDelivered(1)
                  /\ UNCHANGED <<keys, ret>>
             ELSE /\ keys' = l.list
                  /\ err' = err
                  /\ IF l.list = <<>>
                     THEN /\ pc' = "done" /\ ret' = MapResult(NoMap)
                          /\ reqs' = MarkDelivered(1)
                     ELSE /\ pc' = "await" /\ ret' = ret
                          /\ reqs' = Append(MarkDelivered(1), GetRequest(l.list[1]))
  /\ UNCHANGED <<endpoint, store, call, idx, output, prev, since>>

\* the loop of getAll, were a key whose get returns null left out of output
GetAllGetSettleSkipNull ==
  /\ call.name = "getAll" /\ pc = "await"
  /\ reqs[Last].st # "sent"
  /\ IF reqs[Last].st = "err"
     THEN /\ pc' = "raised" /\ err' = TransportError
          /\ reqs' = MarkDelivered(Last)
          /\ UNCHANGED <<idx, output, ret>>
     ELSE LET key == keys[idx + 1]
              g == GetThen(key, FALSE, reqs[Last].resp)
              out == IF g.v = Null THEN output
                     ELSE [x \in (DOMAIN output) \cup {key} |->
                             IF x = key THEN g.v ELSE output[x]]
          IN IF ~g.ok
             THEN /\ pc' = "raised" /\ err' = g.err
                  /\ reqs' = MarkDelivered(Last)
                  /\ UNCHANGED <<idx, output, ret>>
             ELSE /\ output' = out
                  /\ idx' = idx + 1
                  /\ err' = err
                  /\ IF idx + 1 = Len(keys)
                     THEN /\ pc' = "done" /\ ret' = MapResult(out)
                          /\ reqs' = MarkDelivered(Last)
                     ELSE /\ pc' = "await" /\ ret' = ret
                          /\ reqs' = Append(MarkDelivered(Last), GetRequest(keys[idx + 2]))
  /\ UNCHANGED <<endpoint, store, call, keys, prev, since>>

\* output[key] = value, then the next await this.get(key) or return output
GetAllGetSettle ==
  /\ call.name = "getAll" /\ pc = "await"
  /\ reqs[Last].st # "sent"
  /\ IF reqs[Last].st = "err"
     THEN /\ pc' = "raised" /\ err' = TransportError
          /\ reqs' = MarkDelivered(Last)
          /\ UNCHANGED <<idx, output, ret>>
     ELSE LET key == keys[idx + 1]
              g == GetThen(key, FALSE, reqs[Last].resp)
              out == [x \in (DOMAIN output) \cup {key} |->
                        IF x = key THEN g.v ELSE output[x]]
          IN IF ~g.ok
             THEN /\ pc' = "raised" /\ err' = g.err
                  /\ reqs' = MarkDelivered(Last)
                  /\ UNCHANGED <<idx, output, ret>>
             ELSE /\ output' = out
                  /\ idx' = idx + 1
                  /\ err' = err
                  /\ IF idx + 1 = Len(keys)
                     THEN /\ pc' = "done" /\ ret' = MapResult(out)
                          /\ reqs' = MarkDelivered(Last)
                     ELSE /\ pc' = "await" /\ ret' = ret
                          /\ reqs' = Append(MarkDelivered(Last), GetRequest(keys[idx + 2]))
  /\ UNCHANGED <<endpoint, store, call, keys, prev, since>>

-----------------------------------------------------------------------------
(* setAll *)

\* setAll, were every set issued at once
CallSetAllParallel ==
  \E e \in Mappings :
    Begin([NoCall EXCEPT !.name = "setAll", !.ents = e],
          [i \in 1..Len(e) |-> SetRequest(e[i].k, e[i].v)],
          IF e = <<>> THEN "done" ELSE "await",
          IF e = <<>> THEN Self ELSE NoRet)

\* for (const key in obj), up to the first await this.set(key, val)
CallSetAll ==
  \E e \in Mappings :
    Begin([NoCall EXCEPT !.name = "setAll", !.ents = e],
          IF e = <<>> THEN <<>> ELSE <<SetRequest(e[1].k, e[1].v)>>,
          IF e = <<>> THEN "done" ELSE "await",
          IF e = <<>> THEN Self ELSE NoRet)

\* the awaited set returns, were a set that fails tried once more
SetAllSettleRetrying ==
  /\ call.name = "setAll" /\ pc = "await"
  /\ reqs[Last].st # "sent"
  /\ IF reqs[Last].st = "err"
     THEN IF Last = idx + 1
          THEN /\ pc' = pc /\ err' = err
               /\ reqs' = Append(MarkDelivered(Last),
                                 SetRequest(call.ents[idx + 1].k, call.ents[idx + 1].v))
               /\ UNCHANGED <<idx, ret>>
          ELSE /\ pc' = "raised" /\ err' = TransportError
               /\ reqs' = MarkDelivered(Last)
               /\ UNCHANGED <<idx, ret>>
     ELSE /\ idx' = idx + 1
          /\ err' = err
          /\ IF idx + 1 = Len(call.ents)
             THEN /\ pc' = "done" /\ ret' = Self
                  /\ reqs' = MarkDelivered(Last)
             ELSE /\ pc' = "await" /\ ret' = ret
                  /\ reqs' = Append(MarkDelivered(Last),
                                    SetRequest(call.ents[idx + 2].k, call.ents[idx + 2].v))
  /\ UNCHANGED <<endpoint, store, call, keys, output, prev, since>>

\* the awaited set returns: the next await this.set(key, val) or return this
SetAllSettle ==
  /\ call.name = "setAll" /\ pc = "await"
  /\ reqs[Last].st # "sent"
  /\ IF reqs[Last].st = "err"
     THEN /\ pc' = "raised" /\ err' = TransportError
          /\ reqs' = MarkDelivered(Last)
          /\ UNCHANGED <<idx, ret>>
     ELSE /\ idx' = idx + 1
          /\ err' = err
          /\ IF idx + 1 = Len(call.ents)
             THEN /\ pc' = "done" /\ ret' = Self
                  /\ reqs' = MarkDelivered(Last)
             ELSE /\ pc' = "await" /\ ret' = ret
                  /\ reqs' = Append(MarkDelivered(Last),
                                    SetRequest(call.ents[idx + 2].k, call.ents[idx + 2].v))
  /\ UNCHANGED <<endpoint, store, call, keys, output, prev, since>>

-----------------------------------------------------------------------------
(* The specification: a single client, a store that carries out or refuses *)
(* each request it receives, and a transport that may fail any request.    *)

Next ==
  \/ CallGet \/ GetSettle
  \/ CallSet \/ SetSettle
  \/ CallDelete \/ DeleteSettle
  \/ CallList \/ ListSettle
  \/ CallEmpty \/ EmptyListSettle \/ EmptyIssue \/ EmptyJoin
  \/ CallDeleteMultiple \/ DeleteMultipleIssue \/ DeleteMultipleJoin
  \/ CallGetAll \/ GetAllListSettle \/ GetAllGetSettle
  \/ CallSetAll \/ SetAllSettle
  \/ \E i \in 1..Len(reqs) : ServerHandle(i)
  \/ \E i \in 1..Len(reqs) : ServerRefuse(i)
  \/ \E i \in 1..Len(reqs) : TransportFail(i)

Spec == Init /\ [][Next]_vars

-----------------------------------------------------------------------------
(* Other clients of the same store: while this client runs empty() or      *)
(* getAll(), another instance of Client sets and deletes keys.             *)

\* the values the other clients store
OtherValues == {Num(TheNumber)}

\* the store has answered the list request of the running call
Listing ==
  /\ pc \notin {"idle", "done", "raised"}
  /\ Len(reqs) > 0 /\ reqs[1].m = "LIST" /\ reqs[1].st # "sent"

\* another client's set(k, v), carried out by the store
OtherSet(k, v) ==
  /\ store' = ServerPost(store, SetRequest(k, v).body)
  /\ since' = IF Listing
              THEN [del |-> since.del \ {k}, put |-> since.put \cup {k}]
              ELSE since
  /\ UNCHANGED <<endpoint, call, pc, reqs, keys, idx, output, ret, err, prev>>

\* another client's delete(k) of a key that has an entry, carried out by
\* the store
OtherDelete(k) ==
  /\ k \in DOMAIN store
  /\ store' = ServerDelete(store, DeleteRequest(k).url)
  /\ since' = IF Listing
              THEN [del |-> since.del \cup {k}, put |-> since.put \ {k}]
              ELSE since
  /\ UNCHANGED <<endpoint, call, pc, reqs, keys, idx, output, ret, err, prev>>

NextConc ==
  \/ CallEmpty \/ EmptyListSettle \/ EmptyIssue \/ EmptyJoin
  \/ CallGetAll \/ GetAllListSettle \/ GetAllGetSettle
  \/ \E i \in 1..Len(reqs) : ServerHandle(i)
  \/ \E i \in 1..Len(reqs) : ServerRefuse(i)
  \/ \E i \in 1..Len(reqs) : TransportFail(i)
  \/ \E k \in Keys, v \in OtherValues : OtherSet(k, v)
  \/ \E k \in Keys : OtherDelete(k)

SpecConc == Init /\ [][NextConc]_vars

-----------------------------------------------------------------------------
(* Properties *)

Returned == pc \in {"done", "raised"}

FanOut == call.name \in {"empty", "deleteMultiple"}

\* the fan-out call has thrown because one of its deletes failed
DeleteFailureObserved ==
  /\ FanOut /\ pc = "raised"
  /\ \E i \in 1..Len(reqs) : reqs[i].m = "DELETE" /\ reqs[i].st = "err" /\ reqs[i].dl

\* C1: in empty() and deleteMultiple(), when the caller observes the
\* failure of a delete, no delete of that call is still in flight.
C1_FailureAfterAllSettled ==
  DeleteFailureObserved => \A i \in 1..Len(reqs) : reqs[i].st # "sent"

\* C2: when deleteMultiple(k1, ..., kn) raises a failure to the caller, a
\* delete request has been issued for every given key, in the order given.
C2_EveryDeleteIssuedBeforeFailure ==
  (call.name = "deleteMultiple" /\ pc = "raised") =>
    /\ Len(reqs) = Len(call.ents)
    /\ \A i \in 1..Len(call.ents) :
         reqs[i].m = "DELETE" /\ reqs[i].url = UrlPath(call.ents[i].k)

\* deleteMultiple has thrown on the failure of its first delete, with more
\* arguments after it
C2_Witness ==
  /\ call.name = "deleteMultiple" /\ pc = "raised"
  /\ Len(call.ents) = MaxArgs
  /\ reqs[1].st = "err" /\ reqs[1].dl

\* the text the store holds for an entry once its POST is carried out
StoredAs(e) == ServerPost(NoMap, SetRequest(e.k, e.v).body)[e.k]

\* C3: when setAll(mapping) throws, it throws the transport's failure of
\* one entry's set, every earlier entry is in the store as written, and no
\* set has been issued for a later entry.
C3_SetAllAbortsOnFailure ==
  (call.name = "setAll" /\ pc = "raised") =>
    /\ err = TransportError
    /\ Len(reqs) = idx + 1
    /\ reqs[idx + 1].st = "err"
    /\ \A i \in 1..Len(reqs) : reqs[i].m = "POST"
    /\ \A i \in 1..idx :
         /\ call.ents[i].k \in DOMAIN store
         /\ store[call.ents[i].k] = StoredAs(call.ents[i])

\* the requests of getAll follow its list request
Off == IF call.name = "getAll" THEN 1 ELSE 0

\* C4: within one call of getAll() or setAll(), the request of each key is
\* issued only once the request of the key before it has completed, the
\* requests follow the list order (getAll) or the mapping's order (setAll),
\* and at most one of them is in flight.
C4_OneRequestAtATime ==
  (call.name \in {"getAll", "setAll"} /\ Len(reqs) > Off) =>
    /\ \A j \in 1..(Len(reqs) - Off - 1) :
         reqs[j + Off].st \in {"ok", "bad"} /\ reqs[j + Off].dl
    /\ \A j \in 1..(Len(reqs) - Off) :
         IF call.name = "getAll"
         THEN reqs[j + 1].m = "GET" /\ reqs[j + 1].url = UrlPath(keys[j])
         ELSE /\ reqs[j].m = "POST"
              /\ reqs[j].body = SetRequest(call.ents[j].k, call.ents[j].v).body
    /\ Cardinality({j \in 1..(Len(reqs) - Off) : reqs[j + Off].st = "sent"}) <= 1
    /\ Len(reqs) - Off <= Len(IF call.name = "getAll" THEN keys ELSE call.ents)

\* getAll is waiting for the get of the second listed key
C4_Witness ==
  /\ call.name = "getAll" /\ pc = "await"
  /\ Len(keys) >= 2
  /\ Len(reqs) = 3 /\ reqs[3].st = "sent"

\* C5: once empty() has completed successfully the store holds no key, and
\* a list() of it returns an empty sequence.
C5_EmptyClearsStore ==
  (call.name = "empty" /\ pc = "done") =>
    /\ DOMAIN store = {}
    /\ \A body \in ServerList(store, ListRequest(<<>>).url) : ListThen(body).list = <<>>

\* C6: getAll() after a setAll(m) that filled an empty store returns a
\* mapping with exactly the keys of m, each with the value m gives it.
C6_SetAllGetAllInverse ==
  (call.name = "getAll" /\ prev.name = "setAll" /\ Returned /\ AllCarriedOut) =>
    /\ pc = "done"
    /\ DOMAIN ret.map = {prev.ents[i].k : i \in 1..Len(prev.ents)}
    /\ \A i \in 1..Len(prev.ents) :
         prev.ents[i].k \in DOMAIN ret.map => ret.map[prev.ents[i].k] = prev.ents[i].v

\* C7: a non-raw get(k) after set(k, v) with v not null, both carried out by
\* the store, returns a value equal to v.
C7_SetGetRoundTrip ==
  (call.name = "get" /\ ~call.raw /\ prev.name = "set" /\ prev.val # Null
     /\ Returned /\ AllCarriedOut) =>
    pc = "done" /\ ret.v = prev.val

\* the text the store holds for the key of the current get
StoredText == IF call.key \in DOMAIN store THEN store[call.key] ELSE <<>>

\* the get has been answered by the store with what it holds, and has
\* returned or thrown
GetAnswered == call.name = "get" /\ Returned /\ reqs[1].st = "ok"

\* C8: for a key whose stored text is not empty and not valid JSON, a
\* non-raw get throws the error that names the key, and a raw get returns
\* the stored text unchanged.
C8_DecodeErrorNamesKey ==
  (GetAnswered /\ StoredText # <<>> /\ ~JSONParse(StoredText).ok) =>
    IF call.raw
    THEN pc = "done" /\ ret.kind = "value" /\ ret.v = Str(StoredText)
    ELSE pc = "raised" /\ err = [key |-> call.key, name |-> "SyntaxError"]

\* a non-raw get has thrown on a stored text that is not valid JSON
C8_Witness ==
  /\ GetAnswered /\ ~call.raw
  /\ StoredText # <<>> /\ ~JSONParse(StoredText).ok
  /\ pc = "raised"

\* C9: a get of a key whose stored text is empty, or that has no entry,
\* returns null in non-raw mode and the empty string in raw mode.
C9_AbsentNormalization ==
  (GetAnswered /\ StoredText = <<>>) =>
    /\ pc = "done" /\ ret.kind = "value"
    /\ ret.v = IF call.raw THEN Str(<<>>) ELSE Null

\* a raw get has returned for a key stored with the empty text
C9_Witness ==
  /\ GetAnswered /\ call.raw
  /\ call.key \in DOMAIN store /\ store[call.key] = <<>>
  /\ pc = "done"

\* what get returns for a key that has no entry
AbsentResult(raw) == GetThen(call.key, raw, ServerGet(NoMap, GetRequest(call.key).url)).v

\* the get of a key that the caller has just set to null has returned
GetOfNullAnswered == GetAnswered /\ prev.name = "set" /\ prev.val = Null

\* C10 as stated: what a non-raw get returns for a key set to null differs
\* from what it returns for a key with no value.
C10_AbsentDistinctFromNull ==
  (GetOfNullAnswered /\ ~call.raw) => (pc = "done" /\ ret.v # AbsentResult(FALSE))

\* C10 as amended: a non-raw get returns the same null for a key set to null
\* and for a key with no value; only a raw get tells them apart, by the
\* text "null" against the empty text.
C10_AbsentSameAsNull ==
  GetOfNullAnswered =>
    /\ pc = "done"
    /\ IF call.raw
       THEN ret.v = Str(JSONStringify(Null)) /\ ret.v # AbsentResult(TRUE)
       ELSE ret.v = Null /\ ret.v = AbsentResult(FALSE)

\* a non-raw get of a key set to null has returned
C10_Witness == GetOfNullAnswered /\ ~call.raw /\ pc = "done"

\* a get, set, delete or list has returned or thrown after the store answered
\* its request with a non-success status
PrimitiveRefused ==
  /\ call.name \in {"get", "set", "delete", "list"}
  /\ Returned /\ reqs[1].st = "bad"

\* C11: a get, set, delete or list whose request the store answers with a
\* non-success status throws the transport's failure to the caller; it does
\* not return a result.
C11_NonSuccessStatusFails ==
  PrimitiveRefused => (pc = "raised" /\ err = TransportError)

\* C12: the client never holds an undefined endpoint: a construction with
\* no key argument and no REPLIT_DB_URL in the environment yields no client,
\* and no request is ever issued by a client whose endpoint is undefined.
C12_NoUndefinedEndpoint ==
  /\ endpoint # Undefined
  /\ Len(reqs) > 0 => endpoint # Undefined

\* the list call has returned on the answer of the store
ListAnswered == call.name = "list" /\ pc = "done" /\ reqs[1].st = "ok"

\* the lines of the body the store answered the list call with
ListedLines == Split(reqs[1].resp, "\n")

\* C13: list(prefix) returns the empty sequence on an empty body; otherwise
\* it returns one key per line of the body, in the order of the lines, each
\* the decoded form of its line (the line is its URL-encoding), and these
\* are the keys of the store that start with the prefix, each once.
C13_ListDecodesInOrder ==
  ListAnswered =>
    /\ ret.kind = "list"
    /\ IF reqs[1].resp = <<>> THEN ret.list = <<>>
       ELSE /\ Len(ret.list) = Len(ListedLines)
            /\ \A i \in 1..Len(ListedLines) :
                 EncodeURIComponent(ret.list[i]) = ListedLines[i]
    /\ {ret.list[i] : i \in 1..Len(ret.list)} = {k \in DOMAIN store : IsPrefix(call.key, k)}
    /\ \A i, j \in 1..Len(ret.list) : i # j => ret.list[i] # ret.list[j]

\* list has returned two keys or more, one of which the store sent in
\* an encoded form that differs from the key
C13_Witness ==
  /\ ListAnswered /\ Len(ret.list) >= 2
  /\ \E i \in 1..Len(ret.list) : ret.list[i] # ListedLines[i]

\* the delete call has returned or thrown after the store carried out its
\* request
DeleteAnswered == call.name = "delete" /\ Returned /\ reqs[1].st = "ok"

\* the call is a delete of the key that the call before it deleted
SecondDelete == call.name = "delete" /\ prev.name = "delete"

\* C14: a delete that the store carries out returns this and leaves the key
\* without an entry, whether the key had an entry (first delete) or not
\* (second delete of the same key); no step of the second delete changes
\* the store.
C14_DeleteIdempotent ==
  /\ [](DeleteAnswered => (pc = "done" /\ ret = Self /\ call.key \notin DOMAIN store))
  /\ [][(SecondDelete /\ call' = call /\ prev' = prev) => store' = store]_vars

\* the second delete of a key has returned
C14_Witness == SecondDelete /\ DeleteAnswered /\ pc = "done"

Composite == call.name \in {"empty", "getAll", "setAll", "deleteMultiple"}

\* C15: a composite operation has returned or thrown only when none of its
\* requests is still unsettled; a request that never settles therefore
\* keeps the operation from ever completing.
C15_HungRequestHangsComposite ==
  (Composite /\ Returned) => \A i \in 1..Len(reqs) : reqs[i].st # "sent"

\* request i of getAll has failed: the transport rejected it, the store
\* answered it with a non-success status, or its answer does not decode
GetAllFailed(i) ==
  \/ reqs[i].st \in {"err", "bad"}
  \/ /\ reqs[i].st = "ok"
     /\ IF reqs[i].m = "LIST" THEN ~ListThen(reqs[i].resp).ok
        ELSE reqs[i].resp # <<>> /\ ~JSONParse(reqs[i].resp).ok

\* C16: when getAll() has returned or thrown and one of its requests (the
\* list or the get of a key) has failed, it has thrown, it has returned no
\* mapping, and the failed request is the last it issued: no get follows it.
C16_GetAllAbortsOnFailure ==
  (call.name = "getAll" /\ Returned /\ \E i \in 1..Len(reqs) : GetAllFailed(i)) =>
    /\ pc = "raised" /\ ret = NoRet
    /\ GetAllFailed(Last)
    /\ \A i \in 1..(Last - 1) : ~GetAllFailed(i)

\* the loop of the fan-out call has ended
LoopEnded == pc \in {"join", "done", "raised"}

\* C17: a call issues each of its requests once: a primitive operation one
\* request; empty() and getAll() one list request, then at most one delete
\* or get per listed key, in list order; setAll(m) at most one POST per
\* entry of m; deleteMultiple(keys) one delete per argument, all of them
\* once its loop has ended.  A failed request is followed by no second
\* request for the same key.
C17_NoRequestReissued ==
  /\ call.name \in {"get", "set", "delete", "list"} => Len(reqs) = 1
  /\ call.name \in {"empty", "getAll"} =>
       /\ Len(reqs) >= 1 /\ Len(reqs) <= 1 + Len(keys)
       /\ \A i \in 1..Len(reqs) : (reqs[i].m = "LIST") = (i = 1)
       /\ \A i \in 2..Len(reqs) :
            /\ reqs[i].m = IF call.name = "empty" THEN "DELETE" ELSE "GET"
            /\ reqs[i].url = UrlPath(keys[i - 1])
  /\ call.name = "setAll" =>
       /\ Len(reqs) <= Len(call.ents)
       /\ \A i \in 1..Len(reqs) :
            reqs[i].body = SetRequest(call.ents[i].k, call.ents[i].v).body
  /\ call.name = "deleteMultiple" =>
       /\ Len(reqs) <= Len(call.ents)
       /\ LoopEnded => Len(reqs) = Len(call.ents)
       /\ \A i \in 1..Len(reqs) : reqs[i].url = UrlPath(call.ents[i].k)

\* setAll has thrown on the failure of the set of its first entry, with
\* that one request issued
C17_Witness ==
  /\ call.name = "setAll" /\ pc = "raised"
  /\ Len(call.ents) = MaxArgs
  /\ Len(reqs) = 1 /\ reqs[1].st = "err"

\* the keys of setAll's mapping, the arguments of deleteMultiple
CallKeys == {call.ents[i].k : i \in 1..Len(call.ents)}

\* a step of the store that touches no entry outside the keys of the call:
\* every other key keeps its entry, and no other key gains one
FrameKept ==
  \A k \in (DOMAIN store \cup DOMAIN store') \ CallKeys :
    k \in DOMAIN store /\ k \in DOMAIN store' /\ store'[k] = store[k]

\* C20: no step of setAll(m) or deleteMultiple(keys) changes, adds or
\* removes an entry whose key is not in m (not among keys), and once
\* setAll(m) has returned every key of m has an entry: the keys of the
\* store are the keys it had before together with the keys of m.
C20_OtherEntriesUnchanged ==
  /\ []((call.name = "setAll" /\ pc = "done") => CallKeys \subseteq DOMAIN store)
  /\ [][(call.name \in {"setAll", "deleteMultiple"} /\ call' = call) => FrameKept]_vars

\* the keys the list call of empty() or getAll() returned, as its callback
\* reads them from the answer (none before the answer)
Listed ==
  IF Len(reqs) > 0 /\ reqs[1].m = "LIST" /\ reqs[1].st \in {"ok", "bad"}
  THEN ListThen(reqs[1].resp).list
  ELSE <<>>

ListedKeys == {Listed[i] : i \in 1..Len(Listed)}

\* a step in which the store settles a request of the running call
OwnRequestSettles == call' = call /\ reqs' # reqs

\* C18 as stated: no step of empty() removes the entry of a key that
\* another client has written since the list was answered.
C18_WrittenKeyNeverDeleted ==
  [][(call.name = "empty" /\ OwnRequestSettles) =>
       \A k \in since.put \cap DOMAIN store : k \in DOMAIN store']_vars

\* C18 as amended: empty() issues one delete for each key its list call
\* returned and for no other key, and no step of it touches the entry of
\* a key that is not among them, whoever wrote it and whenever.
C18_OnlyListedKeysDeleted ==
  /\ [](call.name = "empty" =>
         /\ Len(reqs) <= 1 + Len(Listed)
         /\ LoopEnded /\ pc # "raised" => Len(reqs) = 1 + Len(Listed)
         /\ \A i \in 2..Len(reqs) : reqs[i].m = "DELETE" /\ reqs[i].url = UrlPath(Listed[i - 1]))
  /\ [][(call.name = "empty" /\ OwnRequestSettles) =>
         \A k \in DOMAIN store \ ListedKeys :
           k \in DOMAIN store' /\ store'[k] = store[k]]_vars

\* empty() has returned, the store having carried out all its requests,
\* and the store holds a key that was not listed and that another client
\* wrote after the list was answered
C18_Witness ==
  /\ call.name = "empty" /\ pc = "done" /\ AllCarriedOut
  /\ \E k \in since.put \cap DOMAIN store : k \notin ListedKeys

\* C19: when getAll() returns, the keys of its result are the keys its list
\* call returned; a listed key that has no entry (or an empty text) when the
\* store answers its get is mapped to null, and a key that another client
\* has added since the list was answered is not in the result.
C19_GetAllNotAtomic ==
  (call.name = "getAll" /\ pc = "done") =>
    /\ DOMAIN ret.map = ListedKeys
    /\ \A i \in 1..Len(Listed) :
         (reqs[i + 1].st = "ok" /\ reqs[i + 1].resp = <<>>) => ret.map[Listed[i]] = Null
    /\ \A k \in since.put \ ListedKeys : k \notin DOMAIN ret.map

\* getAll() has returned with a listed key that another client deleted
\* mapped to null, while the store holds a key added since the list that
\* the result does not have
C19_Witness ==
  /\ call.name = "getAll" /\ pc = "done" /\ AllCarriedOut
  /\ \E k \in ListedKeys \cap since.del :
       k \notin DOMAIN store /\ ret.map[k] = Null
  /\ \E k \in (since.put \cap DOMAIN store) \ ListedKeys : k \notin DOMAIN ret.map

=============================================================================
